---- MODULE Spec2Model ----
(***************************************************************************)
(* Model of hexbin_generator/hexbin_utilities.py.                          *)
(*                                                                         *)
(* Two parts:                                                              *)
(*   - the statistics kernel and the hexagon sizing (get_mean, get_median, *)
(*     get_lower_upper_quartile, winsorize_value, get_winsorized_list,     *)
(*     get_hex_area_from_short_diagonal), driven by SpecStats;             *)
(*   - the orchestration of the GIS engine calls (get_hexbins_full_extent, *)
(*     get_hexbins_from_block_groups, get_hexbins_by_cbsa), driven by      *)
(*     SpecHexbins.                                                        *)
(*                                                                         *)
(* Numbers.  The program computes with floats.  The model computes with    *)
(* exact rationals [num, den] kept in lowest terms; value lists hold       *)
(* integer-valued reals.  The quartile weights are multiples of 1/12 and   *)
(* (3n+5) is never a multiple of 12, so floor() and h are decided far from *)
(* any rounding boundary.  The irrational factor sqrt(3) of the hexagon    *)
(* area is kept symbolic: an area is the rational coefficient of sqrt(3).  *)
(*                                                                         *)
(* Interpreter.  The source names no interpreter.  arcpy ships with        *)
(* Python 2.7 and with Python 3; `/` on two ints and the result type of    *)
(* math.floor differ between the two, so every function that divides is    *)
(* modelled for both and the interpreter is chosen in Init.                *)
(***************************************************************************)
EXTENDS Integers, Sequences, FiniteSets, TLC

VARIABLES
    python,          \* major version of the interpreter running the module: 2 or 3
    value_list,      \* statistics kernel: the value list handed to the function
    fn,              \* statistics kernel: name of the function last called
    args,            \* statistics kernel: the remaining arguments of that call
    result,          \* statistics kernel: what the call returned or raised
    session,         \* GIS engine session: layers, feature classes, settings
    call,            \* the running invocation of a hexbin function (its frame)
    faulted          \* history: an engine tool has failed for an outside reason

vars == <<python, value_list, fn, args, result, session, call, faulted>>

(***************************************************************************)
(* Bounds of the model.                                                    *)
(***************************************************************************)
MaxLen == 12        \* longest value list
MaxVal == 2         \* values of a list are drawn from 0..MaxVal
MaxDiag == 3        \* short diagonals are drawn from -MaxDiag..MaxDiag
MaxBound == 3       \* quartile pairs are drawn from 0..MaxBound
NumCells == 2       \* hexagons the tessellation of an extent generates
FewPolygons == 2    \* block groups of the small region
ManyPolygons == 6   \* block groups of the other regions

(***************************************************************************)
(* Rationals in lowest terms.                                              *)
(***************************************************************************)
RECURSIVE GCD(_, _)
GCD(a, b) == IF b = 0 THEN a ELSE GCD(b, a % b)

Abs(x) == IF x < 0 THEN -x ELSE x

\* the real number n/d, d > 0
Rat(n, d) ==
    LET g == GCD(Abs(n), d)
    IN  IF g = 0 THEN [num |-> 0, den |-> 1] ELSE [num |-> n \div g, den |-> d \div g]

R(x) == [num |-> x, den |-> 1]
RLess(x, y) == x.num * y.den < y.num * x.den
RLeq(x, y) == x.num * y.den <= y.num * x.den
RAdd(x, y) == Rat(x.num * y.den + y.num * x.den, x.den * y.den)
RMul(x, y) == Rat(x.num * y.num, x.den * y.den)

(***************************************************************************)
(* Outcomes of a call: a returned value or a raised exception.             *)
(***************************************************************************)
Ok(v) == [kind |-> "ok", value |-> v]
Raise(e) == [kind |-> e, value |-> <<>>]
IsOk(r) == r.kind = "ok"

\* value_list[i] of a Python list: 0-based, a negative index counts from the
\* end, anything else out of range raises IndexError.
ListIndex(v, i) ==
    IF i >= 0 /\ i < Len(v) THEN Ok(v[i + 1])
    ELSE IF i < 0 /\ -i <= Len(v) THEN Ok(v[Len(v) + i + 1])
    ELSE Raise("IndexError")

\* value_list[x] where x is a float: a list index must be an integer.
FloatIndex(v, x) == Raise("TypeError")

RECURSIVE SumSeq(_)
SumSeq(s) == IF s = <<>> THEN R(0) ELSE RAdd(s[1], SumSeq(Tail(s)))

(***************************************************************************)
(* Statistics kernel.                                                      *)
(***************************************************************************)
\* get_mean: fsum(value_list) / len(value_list)
get_mean(v) ==
    IF Len(v) = 0 THEN Raise("ZeroDivisionError")
    ELSE Ok(RMul(SumSeq(v), Rat(1, Len(v))))

\* get_median.  `value_count / 2` is a float under Python 3, and a float
\* cannot index a list; under Python 2 it is the integer quotient.
get_median(py, v) ==
    LET value_count == Len(v) IN
    IF value_count % 2 = 0
    THEN LET median_index == value_count \div 2 IN
         IF py = 3 THEN FloatIndex(v, median_index - 1)
         ELSE ListIndex(v, median_index - 1)
    ELSE LET median_index == (value_count + 1) \div 2
             a == ListIndex(v, median_index - 1)
             b == ListIndex(v, median_index)
         IN  IF py = 3 THEN FloatIndex(v, median_index - 1)
             ELSE IF ~IsOk(a) THEN a
             ELSE IF ~IsOk(b) THEN b
             ELSE Ok(RMul(RAdd(a.value, b.value), Rat(1, 2)))

\* floor(value_count/4 + 5/12).  Python 3: true division, (3n+5)/12 floored.
\* Python 2: both quotients are integer quotients and 5/12 is 0.
Q1Index(py, value_count) ==
    IF py = 3 THEN (3 * value_count + 5) \div 12 ELSE value_count \div 4

\* h left at zero, as when every quotient is an integer quotient
WeightTruncated(py, value_count) == R(0)

\* h = value_count/4 + 5/12 - q1_index
Weight(py, value_count) ==
    IF py = 3 THEN Rat((3 * value_count + 5) % 12, 12) ELSE R(0)

\* (1 - h) * x + h * y
Interpolate(h, x, y) == RAdd(RMul(RAdd(R(1), RMul(R(-1), h)), x), RMul(h, y))

\* the upper quartile read at value_list[k - 1] and value_list[k - 2]
get_lower_upper_quartile_mirrored(py, v) ==
    LET value_count == Len(v)
        q1_index == Q1Index(py, value_count)
        h == Weight(py, value_count)
        a == ListIndex(v, q1_index - 1)
        b == ListIndex(v, q1_index)
        k == value_count - q1_index + 1
        c == ListIndex(v, k - 1)
        d == ListIndex(v, k - 2)
    IN  IF py = 2 THEN FloatIndex(v, q1_index - 1)
        ELSE IF ~IsOk(a) THEN a
        ELSE IF ~IsOk(b) THEN b
        ELSE IF ~IsOk(c) THEN c
        ELSE IF ~IsOk(d) THEN d
        ELSE Ok(<<Interpolate(h, a.value, b.value), Interpolate(h, c.value, d.value)>>)

\* get_lower_upper_quartile.  math.floor returns a float under Python 2, so
\* value_list[q1_index - 1] raises TypeError there whatever the list holds.
get_lower_upper_quartile(py, v) ==
    LET value_count == Len(v)
        q1_index == Q1Index(py, value_count)
        h == Weight(py, value_count)
        a == ListIndex(v, q1_index - 1)
        b == ListIndex(v, q1_index)
        k == value_count - q1_index + 1
        c == ListIndex(v, k + 1)
        d == ListIndex(v, k)
    IN  IF py = 2 THEN FloatIndex(v, q1_index - 1)
        ELSE IF ~IsOk(a) THEN a
        ELSE IF ~IsOk(b) THEN b
        ELSE IF ~IsOk(c) THEN c
        ELSE IF ~IsOk(d) THEN d
        ELSE Ok(<<Interpolate(h, a.value, b.value), Interpolate(h, c.value, d.value)>>)

\* winsorize_value with both comparisons reversed
winsorize_value_reversed(X, quartile_values) ==
    IF RLess(quartile_values[1], X) THEN quartile_values[1]
    ELSE IF RLess(X, quartile_values[2]) THEN quartile_values[2]
    ELSE X

\* winsorize_value
winsorize_value(X, quartile_values) ==
    IF RLess(X, quartile_values[1]) THEN quartile_values[1]
    ELSE IF RLess(quartile_values[2], X) THEN quartile_values[2]
    ELSE X

\* [winsorize_value(value, quartile_values) for value in X]
WinsorizeEach(X, quartile_values) ==
    [i \in 1..Len(X) |-> winsorize_value(X[i], quartile_values)]

\* get_winsorized_list
get_winsorized_list(py, X) ==
    LET quartile_values == get_lower_upper_quartile(py, X) IN
    IF ~IsOk(quartile_values) THEN quartile_values
    ELSE Ok(WinsorizeEach(X, quartile_values.value))

(***************************************************************************)
(* Hexagon sizing.  An area is returned as the rational c of c * sqrt(3).  *)
(***************************************************************************)
\* get_hex_area_from_short_diagonal that rejects a non-positive diagonal
get_hex_area_from_short_diagonal_checked(short_diagonal) ==
    IF RLeq(short_diagonal, R(0)) THEN Raise("ValueError")
    ELSE Ok(RMul(Rat(1, 2), RMul(short_diagonal, short_diagonal)))

\* get_hex_area_from_short_diagonal:
\* 1.5 * sqrt(3) * (d / sqrt(3))^2 = (3/2) * sqrt(3) * d^2 / 3 = (d^2 / 2) * sqrt(3)
get_hex_area_from_short_diagonal(short_diagonal) ==
    Ok(RMul(RMul(Rat(3, 2), Rat(1, 3)), RMul(short_diagonal, short_diagonal)))

\* get_hex_area applied to the sorted list of extent heights and widths
get_hex_area(py, size_list) ==
    LET w == get_winsorized_list(py, size_list)
        m == IF IsOk(w) THEN get_mean(w.value) ELSE w
    IN  IF ~IsOk(m) THEN m ELSE get_hex_area_from_short_diagonal(m.value)


(***************************************************************************)
(* Inputs of the statistics kernel.                                        *)
(***************************************************************************)
\* ascending lists of at most n values drawn from 0..MaxVal
RECURSIVE SortedLists(_)
SortedLists(n) ==
    IF n = 0 THEN {<<>>}
    ELSE LET shorter == SortedLists(n - 1)
             longest == {t \in shorter : Len(t) = n - 1}
         IN  shorter \cup
             UNION {{Append(t, R(x)) :
                        x \in {y \in 0..MaxVal : t = <<>> \/ t[Len(t)].num <= y}} :
                    t \in longest}

\* the list of the winsorize scenario: 1, 2, ..., 10
ScenarioList == [i \in 1..10 |-> R(i)]

ValueLists == SortedLists(MaxLen) \cup {ScenarioList}

QuartilePairs == {<<R(lo), R(hi)>> : lo \in 0..MaxBound, hi \in 0..MaxBound}

ShortDiagonals == {R(d) : d \in (0 - MaxDiag)..MaxDiag}

(***************************************************************************)
(* The GIS engine session.  arcpy keeps, per process, the feature layers   *)
(* made so far under their names, and the setting env.overwriteOutput,     *)
(* which this module never sets.  Feature classes live on disk.            *)
(***************************************************************************)
LayerNames == {"block_group_layer", "hexbins_layer", "block_group_lyr"}
OutPaths == {"out_a", "out_b"}
Regions == {"few", "part", "all"}
Grid == 1..NumCells

NoLayer == [exists |-> FALSE, source |-> "", selected |-> FALSE, selection |-> {}]
NoDataset == [exists |-> FALSE, features |-> {}]
NoError == [kind |-> "ok", why |-> ""]

NoSession ==
    [layers |-> [n \in LayerNames |-> NoLayer],
     datasets |-> [p \in OutPaths |-> NoDataset],
     overwriteOutput |-> FALSE]

NoCall ==
    [pc |-> "idle", entry |-> "", region |-> "", out |-> "", block_groups |-> "",
     size_list |-> <<>>, size |-> R(0), log |-> <<>>, error |-> NoError, failed |-> ""]

InitStats ==
    /\ python \in {2, 3}
    /\ value_list \in ValueLists
    /\ fn = "none"
    /\ args = <<>>
    /\ result = Ok(<<>>)
    /\ session = NoSession
    /\ call = NoCall
    /\ faulted = FALSE

Returned(f, a, r) ==
    /\ fn = "none"
    /\ fn' = f
    /\ args' = a
    /\ result' = r
    /\ UNCHANGED <<python, value_list, session, call, faulted>>

CallGetMean == Returned("get_mean", <<>>, get_mean(value_list))

CallGetMedian == Returned("get_median", <<>>, get_median(python, value_list))

CallGetLowerUpperQuartile ==
    Returned("get_lower_upper_quartile", <<>>, get_lower_upper_quartile(python, value_list))

CallGetWinsorizedList ==
    Returned("get_winsorized_list", <<>>, get_winsorized_list(python, value_list))

\* winsorize_value applied with one fixed pair to every element, then again
\* to every element of what the first pass returned
CallWinsorizeTwice ==
    \E q \in QuartilePairs :
        LET once == WinsorizeEach(value_list, q) IN
        Returned("winsorize_twice", q, Ok([once |-> once, twice |-> WinsorizeEach(once, q)]))

CallGetHexAreaFromShortDiagonal ==
    \E d \in ShortDiagonals :
        Returned("get_hex_area_from_short_diagonal", d, get_hex_area_from_short_diagonal(d))

NextStats ==
    \/ CallGetMean
    \/ CallGetMedian
    \/ CallGetLowerUpperQuartile
    \/ CallGetWinsorizedList
    \/ CallWinsorizeTwice
    \/ CallGetHexAreaFromShortDiagonal

SpecStats == InitStats /\ [][NextStats]_vars


(***************************************************************************)
(* Claims about the statistics kernel and the sizing, under SpecStats.     *)
(***************************************************************************)
\* x clamped into [lower, upper]
Clamp(x, lower, upper) ==
    IF RLess(x, lower) THEN lower ELSE IF RLess(upper, x) THEN upper ELSE x

\* the quantities the quartile rule names for a list of n values
RuleIndex(n) == (3 * n + 5) \div 12
RuleWeight(n) == Rat((3 * n + 5) % 12, 12)
RuleMirror(n) == n - RuleIndex(n) + 1
RuleBlend(h, x, y) ==
    Rat((h.den - h.num) * x.num * y.den + h.num * y.num * x.den, h.den * x.den * y.den)

\* C1: for every ascending list of at least 4 values get_lower_upper_quartile
\* returns a pair (lower, upper), raises nothing, and lower <= upper.
C1_QuartilesReturnFromFourValues ==
    (fn = "get_lower_upper_quartile" /\ Len(value_list) >= 4)
        => /\ IsOk(result)
           /\ RLeq(result.value[1], result.value[2])

\* C2: for every ascending list of at least 4 values get_winsorized_list
\* returns a list of the same length whose i-th element is the i-th input
\* element clamped into the quartile pair of the whole input list.
C2_WinsorizedListClampsEveryElement ==
    (fn = "get_winsorized_list" /\ Len(value_list) >= 4)
        => /\ IsOk(result)
           /\ Len(result.value) = Len(value_list)
           /\ LET q == get_lower_upper_quartile(python, value_list).value IN
              \A i \in 1..Len(value_list) :
                  result.value[i] = Clamp(value_list[i], q[1], q[2])

\* C3: for every sorted list of n >= 1 values get_median returns a value and
\* raises nothing: for even n the element at 0-based index n/2 - 1, for odd n
\* the average of the elements at 0-based indices (n+1)/2 - 1 and (n+1)/2.
C3_MedianReturnsFromOneValue ==
    (fn = "get_median" /\ Len(value_list) >= 1)
        => /\ IsOk(result)
           /\ LET n == Len(value_list)
                  m == (n + 1) \div 2
              IN  IF n % 2 = 0
                  THEN result.value = value_list[n \div 2]
                  ELSE /\ m + 1 <= n
                       /\ result.value =
                              Rat(value_list[m].num + value_list[m + 1].num, 2)

C5_QuartilesFailBelowFourValues ==
    (fn = "get_lower_upper_quartile" /\ Len(value_list) < 4)
        => /\ ~IsOk(result)
           /\ result.kind = IF python = 3 THEN "IndexError" ELSE "TypeError"

C5_Witness ==
    /\ fn = "get_lower_upper_quartile"
    /\ python = 3
    /\ Len(value_list) = 3
    /\ result.kind = "IndexError"

\* C9: for every value list and every pair (lower, upper) with lower <= upper,
\* applying winsorize_value with that pair to every element twice yields the
\* list that applying it once yields.
C9_WinsorizeIdempotent ==
    (fn = "winsorize_twice" /\ RLeq(args[1], args[2]))
        => result.value.twice = result.value.once

C9_Witness ==
    /\ fn = "winsorize_twice"
    /\ RLess(args[1], args[2])
    /\ \E i \in 1..Len(value_list) : RLess(value_list[i], args[1])
    /\ \E i \in 1..Len(value_list) : RLess(args[2], value_list[i])
    /\ \E i \in 1..Len(value_list) :
           RLeq(args[1], value_list[i]) /\ RLeq(value_list[i], args[2])
    /\ result.value.once # value_list
    /\ result.value.twice = result.value.once

\* C10 as stated: whenever get_lower_upper_quartile returns, lower is
\* (1-h)*v[q1_index-1] + h*v[q1_index] and upper is (1-h)*v[k+1] + h*v[k],
\* v[i] being the i-th element of the list counted from 1.
C10_QuartileFormulaOneBased ==
    (fn = "get_lower_upper_quartile" /\ IsOk(result))
        => LET n == Len(value_list)
               j == RuleIndex(n)
               h == RuleWeight(n)
               k == RuleMirror(n)
           IN  /\ result.value[1] = RuleBlend(h, value_list[j - 1], value_list[j])
               /\ result.value[2] = RuleBlend(h, value_list[k + 1], value_list[k])

\* C10 amended: whenever get_lower_upper_quartile returns, lower is
\* (1-h)*v[q1_index-1] + h*v[q1_index] and upper is (1-h)*v[k+1] + h*v[k],
\* v[i] being the element at 0-based index i of the list (the i+1-th element).
C10_QuartileFormulaZeroBased ==
    (fn = "get_lower_upper_quartile" /\ IsOk(result))
        => LET n == Len(value_list)
               j == RuleIndex(n)
               h == RuleWeight(n)
               k == RuleMirror(n)
           IN  /\ result.value[1] = RuleBlend(h, value_list[j], value_list[j + 1])
               /\ result.value[2] = RuleBlend(h, value_list[k + 2], value_list[k + 1])

C10_Witness ==
    /\ fn = "get_lower_upper_quartile"
    /\ IsOk(result)
    /\ LET n == Len(value_list)
           j == RuleIndex(n)
           k == RuleMirror(n)
       IN  /\ value_list[j] # value_list[j + 1]
           /\ value_list[k + 1] # value_list[k + 2]
    /\ RLess(result.value[1], result.value[2])


(***************************************************************************)
(* Block groups and hexagons.  A region is a set of block groups: a        *)
(* feature class passed to get_hexbins_from_block_groups, or the block     *)
(* groups of esri_bg that intersect the CBSA passed to get_hexbins_by_cbsa.*)
(* The tessellation of a region's extent is the set Grid of hexagons; a    *)
(* region intersects the hexagons of Aoi(region).                          *)
(***************************************************************************)
Polygon(i) == [height |-> R(1 + (i % 2)), width |-> R(1 + (i % 3))]

Features(region) ==
    [i \in 1..(IF region = "few" THEN FewPolygons ELSE ManyPolygons) |-> Polygon(i)]

Aoi(region) == IF region \in {"all", "esri_bg"} THEN Grid ELSE {1}

Intersects(hexagon, region) == hexagon \in Aoi(region)

\* list.sort(): insertion of each value into an ascending list
RECURSIVE Insert(_, _)
Insert(s, x) ==
    IF s = <<>> THEN <<x>>
    ELSE IF RLeq(x, s[1]) THEN <<x>> \o s
    ELSE <<s[1]>> \o Insert(Tail(s), x)

RECURSIVE Sort(_)
Sort(s) == IF s = <<>> THEN <<>> ELSE Insert(Sort(Tail(s)), s[1])

\* get_extent_length_height_list_sorted: height then width of every feature,
\* then sorted
RECURSIVE ExtentValues(_)
ExtentValues(features) ==
    IF features = <<>> THEN <<>>
    ELSE <<features[1].height, features[1].width>> \o ExtentValues(Tail(features))

get_extent_length_height_list_sorted(features) == Sort(ExtentValues(features))

(***************************************************************************)
(* The engine's tools, by their documented contract.  Each returns the     *)
(* error it raises, if any, and the session it leaves.                     *)
(***************************************************************************)
ExecuteError(why) == [kind |-> "ExecuteError", why |-> why]
Done(s) == [error |-> NoError, session |-> s]
Failed(s, e) == [error |-> e, session |-> s]

\* the block groups a reference denotes: a feature class, or a layer limited
\* to its selection
BlockGroupsOf(s, ref) ==
    IF ref \in LayerNames
    THEN LET layer == s.layers[ref] IN
         IF layer.selected /\ layer.selection # {}
         THEN CHOOSE r \in layer.selection : TRUE
         ELSE layer.source
    ELSE ref

\* MakeFeatureLayer_management(in_features, out_layer): the name is taken in
\* the session; an existing name is replaced only if overwriteOutput is set.
MakeFeatureLayer(s, in_features, out_layer) ==
    IF s.layers[out_layer].exists /\ ~s.overwriteOutput
    THEN Failed(s, ExecuteError("exists"))
    ELSE Done([s EXCEPT !.layers[out_layer] =
                 [exists |-> TRUE,
                  source |-> IF in_features \in OutPaths THEN in_features
                             ELSE BlockGroupsOf(s, in_features),
                  selected |-> FALSE,
                  selection |-> {}]])

\* GenerateTessellation_management: writes the hexagons covering the extent
\* to the output feature class; an existing one is replaced only if
\* overwriteOutput is set.
GenerateTessellation(s, Output_Feature_Class, Size) ==
    IF s.datasets[Output_Feature_Class].exists /\ ~s.overwriteOutput
    THEN Failed(s, ExecuteError("exists"))
    ELSE Done([s EXCEPT !.datasets[Output_Feature_Class] =
                 [exists |-> TRUE, features |-> Grid]])

\* SelectLayerByLocation with the spatial relationship left as it is
SelectLayerByLocationNotInverted(s, in_layer, select_features) ==
    LET layer == s.layers[in_layer]
        cells == s.datasets[layer.source].features
        hit == {c \in cells : Intersects(c, BlockGroupsOf(s, select_features))}
    IN  IF ~layer.exists \/ ~s.layers[select_features].exists
        THEN Failed(s, ExecuteError("missing"))
        ELSE Done([s EXCEPT !.layers[in_layer].selected = TRUE,
                            !.layers[in_layer].selection = hit])

\* SelectLayerByLocation_management(in_layer, 'INTERSECT', select_features,
\* 'NEW_SELECTION', 'INVERT'): the layer's selection becomes the features
\* that intersect no selecting feature.
SelectLayerByLocationInverted(s, in_layer, select_features) ==
    LET layer == s.layers[in_layer]
        cells == s.datasets[layer.source].features
        hit == {c \in cells : Intersects(c, BlockGroupsOf(s, select_features))}
    IN  IF ~layer.exists \/ ~s.layers[select_features].exists
        THEN Failed(s, ExecuteError("missing"))
        ELSE Done([s EXCEPT !.layers[in_layer].selected = TRUE,
                            !.layers[in_layer].selection = cells \ hit])

\* SelectLayerByLocation_management(in_layer, 'INTERSECT', select_features,
\* 'NEW_SELECTION') on the block groups: those that intersect the CBSA.
SelectBlockGroupsByCbsa(s, in_layer, region) ==
    IF ~s.layers[in_layer].exists
    THEN Failed(s, ExecuteError("missing"))
    ELSE Done([s EXCEPT !.layers[in_layer].selected = TRUE,
                        !.layers[in_layer].selection = {region}])

\* DeleteFeatures_management(layer): deletes the selected features of the
\* layer's feature class, every feature if the layer has no selection.
DeleteFeatures(s, in_layer) ==
    LET layer == s.layers[in_layer] IN
    IF ~layer.exists THEN Failed(s, ExecuteError("missing"))
    ELSE Done([s EXCEPT !.datasets[layer.source].features =
                 IF layer.selected THEN @ \ layer.selection ELSE {}])

\* get_usa_data_path of get_business_analyst_data_paths: the base data
\* directory, or an error when there is none
get_usa_data_path(found) ==
    IF found THEN NoError ELSE [kind |-> "EnvironmentError", why |-> "no data path"]


(***************************************************************************)
(* get_hexbins_from_block_groups and get_hexbins_by_cbsa, one action per   *)
(* statement that calls out.  No statement is inside a try block, so an    *)
(* exception ends the invocation and reaches the caller.                   *)
(***************************************************************************)
StagesFromBlockGroups ==
    <<"make_bg_layer", "describe", "sample", "size", "tessellate",
      "make_hex_layer", "select", "delete">>

StagesByCbsa == <<"usa_data_path", "make_bg_lyr", "select_bg">> \o StagesFromBlockGroups

\* an exception handled by carrying on with the next statement
PropagateSwallowed(error, next) == next

\* where control goes after a statement: on, or out with the exception
Propagate(error, next) == IF error.kind = "ok" THEN next ELSE "raised"

\* failures that come from outside the program and its inputs
OutsideReasons == {"fault", "no data path"}

\* any engine tool may fail for reasons outside the program
Tool(fault, outcome) ==
    IF fault THEN Failed(session, ExecuteError("fault")) ELSE outcome

\* one statement: `frame` is the invocation's frame with what the statement
\* assigns; the statement's outcome decides where control goes
Advance(stage, next, outcome, frame) ==
    /\ call.pc = stage
    /\ call' = [frame EXCEPT !.pc = Propagate(outcome.error, next),
                             !.log = Append(@, stage),
                             !.error = IF outcome.error.kind = "ok" THEN @ ELSE outcome.error,
                             !.failed = IF outcome.error.kind = "ok" THEN @ ELSE stage]
    /\ session' = outcome.session
    /\ faulted' = (faulted \/ outcome.error.why \in OutsideReasons)
    /\ UNCHANGED <<python, value_list, fn, args, result>>

Step(stage, next, outcome) == Advance(stage, next, outcome, call)

InitHexbins ==
    /\ python \in {2, 3}
    /\ value_list = <<>>
    /\ fn = "none"
    /\ args = <<>>
    /\ result = Ok(<<>>)
    /\ session \in {[NoSession EXCEPT !.overwriteOutput = b] : b \in BOOLEAN}
    /\ call = NoCall
    /\ faulted = FALSE

\* a caller invokes get_hexbins_from_block_groups(block_groups, output)
CallGetHexbinsFromBlockGroups ==
    /\ call.pc = "idle"
    /\ \E region \in Regions, out \in OutPaths :
           call' = [NoCall EXCEPT !.pc = "make_bg_layer", !.entry = "block_groups",
                                  !.region = region, !.out = out,
                                  !.block_groups = region]
    /\ UNCHANGED <<python, value_list, fn, args, result, session, faulted>>

\* a caller invokes get_hexbins_by_cbsa(layer_with_cbsa_selected, output)
CallGetHexbinsByCbsa ==
    /\ call.pc = "idle"
    /\ \E region \in Regions, out \in OutPaths :
           call' = [NoCall EXCEPT !.pc = "usa_data_path", !.entry = "cbsa",
                                  !.region = region, !.out = out]
    /\ UNCHANGED <<python, value_list, fn, args, result, session, faulted>>

\* line 220: os.path.join(get_usa_data_path(), ...)
UsaDataPath ==
    \E found \in BOOLEAN :
        Step("usa_data_path", "make_bg_lyr",
             [error |-> get_usa_data_path(found), session |-> session])

\* line 223: MakeFeatureLayer_management(block_group_feature_class, 'block_group_lyr')
MakeBlockGroupLyr ==
    \E fault \in BOOLEAN :
        Step("make_bg_lyr", "select_bg",
             Tool(fault, MakeFeatureLayer(session, "esri_bg", "block_group_lyr")))

\* lines 226-231: the block groups in the CBSA are selected; line 234 passes
\* the layer on as block_groups
SelectBlockGroups ==
    \E fault \in BOOLEAN :
        Advance("select_bg", "make_bg_layer",
                Tool(fault, SelectBlockGroupsByCbsa(session, "block_group_lyr", call.region)),
                [call EXCEPT !.block_groups = "block_group_lyr"])

\* line 190: MakeFeatureLayer_management(block_groups, 'block_group_layer')
MakeBlockGroupLayer ==
    \E fault \in BOOLEAN :
        Step("make_bg_layer", "describe",
             Tool(fault, MakeFeatureLayer(session, call.block_groups, "block_group_layer")))

\* line 169: arcpy.Describe(block_groups)
DescribeBlockGroups ==
    \E fault \in BOOLEAN :
        Step("describe", "sample", Tool(fault, Done(session)))

\* line 155: get_extent_length_height_list_sorted(block_group_feature_class)
SampleExtents ==
    \E fault \in BOOLEAN :
        Advance("sample", "size", Tool(fault, Done(session)),
                IF fault THEN call
                ELSE [call EXCEPT !.size_list =
                         get_extent_length_height_list_sorted(
                             Features(BlockGroupsOf(session, call.block_groups)))])

\* lines 152-154: the area from the mean of the winsorized list
ComputeSize ==
    LET area == get_hex_area(python, call.size_list) IN
    Advance("size", "tessellate",
            IF IsOk(area) THEN Done(session)
            ELSE Failed(session, [kind |-> area.kind, why |-> "size"]),
            IF IsOk(area) THEN [call EXCEPT !.size = area.value] ELSE call)

\* lines 172-178: GenerateTessellation_management(...)[0]
Tessellate ==
    \E fault \in BOOLEAN :
        Step("tessellate", "make_hex_layer",
             Tool(fault, GenerateTessellation(session, call.out, call.size)))

\* lines 191-194: MakeFeatureLayer_management(<hexbins>, 'hexbins_layer')
MakeHexbinLayer ==
    \E fault \in BOOLEAN :
        Step("make_hex_layer", "select",
             Tool(fault, MakeFeatureLayer(session, call.out, "hexbins_layer")))

\* lines 197-203: SelectLayerByLocation_management(..., 'INVERT')
SelectNonIntersecting ==
    \E fault \in BOOLEAN :
        Step("select", "delete",
             Tool(fault, SelectLayerByLocationInverted(session, "hexbins_layer",
                                                       "block_group_layer")))

\* line 206: DeleteFeatures_management(hexbin_layer)
DeleteSelected ==
    \E fault \in BOOLEAN :
        Step("delete", "returned", Tool(fault, DeleteFeatures(session, "hexbins_layer")))

\* the invocation is over: its frame is gone, the session stays
Return ==
    /\ call.pc \in {"returned", "raised"}
    /\ call' = NoCall
    /\ UNCHANGED <<python, value_list, fn, args, result, session, faulted>>

NextHexbins ==
    \/ CallGetHexbinsFromBlockGroups
    \/ CallGetHexbinsByCbsa
    \/ UsaDataPath
    \/ MakeBlockGroupLyr
    \/ SelectBlockGroups
    \/ MakeBlockGroupLayer
    \/ DescribeBlockGroups
    \/ SampleExtents
    \/ ComputeSize
    \/ Tessellate
    \/ MakeHexbinLayer
    \/ SelectNonIntersecting
    \/ DeleteSelected
    \/ Return

SpecHexbins == InitHexbins /\ [][NextHexbins]_vars


(***************************************************************************)
(* Claims about the orchestration, under SpecHexbins.                      *)
(***************************************************************************)
IsPrefix(s, t) == Len(s) <= Len(t) /\ \A i \in 1..Len(s) : s[i] = t[i]

InLog(stage) == \E i \in 1..Len(call.log) : call.log[i] = stage

StagesOf(entry) == IF entry = "cbsa" THEN StagesByCbsa ELSE StagesFromBlockGroups

\* the stages that come before the clipping
BeforeClip ==
    {"usa_data_path", "make_bg_lyr", "select_bg", "make_bg_layer", "describe",
     "sample", "size", "tessellate", "make_hex_layer"}

\* the hexagons of the tessellation that intersect the area of interest
IntersectingHexagons(region) == {h \in Grid : Intersects(h, region)}

\* C6: the stages of an invocation run in the order sampling, sizing,
\* tessellation, selection of the non-intersecting hexagons, deletion; a
\* stage that fails ends the invocation with its error, and after a failure
\* before the clipping neither the selection nor the deletion is invoked.
C6_StagesInOrderAndFailureStops ==
    call.pc # "idle" =>
        /\ IsPrefix(call.log, StagesOf(call.entry))
        /\ (call.error.kind # "ok") => (call.pc = "raised")
        /\ (call.failed \in BeforeClip) => (~InLog("select") /\ ~InLog("delete"))
        /\ InLog("delete") =>
               /\ InLog("sample") /\ InLog("size") /\ InLog("tessellate") /\ InLog("select")
               /\ call.failed \notin BeforeClip \cup {"select"}

C6_Witness ==
    /\ call.pc = "raised"
    /\ call.failed = "tessellate"
    /\ InLog("sample") /\ InLog("size") /\ InLog("tessellate")
    /\ ~InLog("select") /\ ~InLog("delete")

SizingOfRegion(region) ==
    get_hex_area(python, get_extent_length_height_list_sorted(Features(region)))

\* C8: in a session whose engine never failed for an outside reason, the
\* outcome of every invocation, success or failure and the hexagons left,
\* depends only on its own inputs and is what it would be as the first
\* invocation of the session.
C8_OutcomeAsFirstInvocation ==
    (call.pc \in {"returned", "raised"} /\ ~faulted)
        => IF IsOk(SizingOfRegion(call.region))
           THEN /\ call.pc = "returned"
                /\ session.datasets[call.out].features = IntersectingHexagons(call.region)
           ELSE /\ call.pc = "raised"
                /\ call.error.kind = SizingOfRegion(call.region).kind

====
